---- MODULE Spec2Model ----
(***************************************************************************)
(* Model of the Bitbucket -> GitHub batch migrator: the file-backed        *)
(* repository state store (lib/state-manager), the per-repository          *)
(* migration attempt and the run loop (do-migrate-repos), the destination  *)
(* client (lib/github-api) and the interrupt handler (lib/utils).          *)
(*                                                                         *)
(* Every `await` of the source is a point where the other asynchronous     *)
(* activity of the process (the signal handler) may run, so a store        *)
(* operation is modelled as its load step followed by its save step.       *)
(* Console output is not part of the state; of the backup copies of        *)
(* repos.json, which the program never reads back, the state keeps the one *)
(* written by the run in progress.                                         *)
(***************************************************************************)
EXTENDS Integers, Sequences, FiniteSets, TLC

VARIABLES
    table,      \* data/repos.json: the persisted, ordered list of records
    gh,         \* destination side: name -> "absent" | "empty" | "nonempty"
    wc,         \* names that have a local working copy under temp/
    pc,         \* position of the main flow; "off" when no process runs
    pending,    \* pendingRepos of migrate(): names, in the order computed
    idx,        \* loop index i of migrate() (1-based)
    att,        \* locals of the migrateRepository call in progress
    op,         \* the state-store call in flight in the main flow
    failedList, \* failedRepos of retryFailed(): names, in the order read
    cleared,    \* how many entries of failedList the clearError loop has passed
    hpc,        \* position of the signal handler; "none" when not running
    hloaded,    \* the table the handler's resetProcessingRepos loaded
    sigs,       \* interrupt signals delivered so far
    threshold,  \* config.js lfs.defaultThreshold, as a string of characters
    snapshot,   \* repos-backup-<timestamp>.json written by the run in progress
    det,        \* a handleLFS call on its own: its inputs and what it computed
    ret         \* what the last direct state-store call returned

vars == <<table, gh, wc, pc, pending, idx, att, op, failedList, cleared,
          hpc, hloaded, sigs, threshold, snapshot, det, ret>>

(***************************************************************************)
(* Bounds and program constants                                            *)
(***************************************************************************)
NumRepos == 2          \* records in repos.json
MaxSignals == 1        \* interrupt signals delivered over a behaviour
RetryCeiling == 3      \* getPendingRepos: retry_count < 3
CreateRetries == 3     \* retry(() => createRepository(...), 3, 2000)

\* direct markAsError calls stop one above the ceiling
MaxRetryCount == RetryCeiling + 1

Null == "null"
Stamp == "ts"          \* new Date().toISOString()

Names == 1..NumRepos
Ghost == NumRepos + 1  \* a name no record carries
Messages == {"create", "clone", "lfs", "push"}

\* create-repos-list.js: the record written for every listed repository
FreshRecord(n) ==
    [name |-> n, branch |-> "master", transferred |-> FALSE,
     processing |-> FALSE, created_at |-> Null, pushed_at |-> Null,
     error |-> Null, retry_count |-> 0]

FreshTable == [n \in Names |-> FreshRecord(n)]

(***************************************************************************)
(* State store (StateManager): pure parts                                  *)
(***************************************************************************)
\* mutant of findIndex: a name that is absent gives the last index
findIndexOrLast(t, name) ==
    IF \E k \in 1..Len(t) : t[k].name = name
    THEN CHOOSE k \in 1..Len(t) :
            /\ t[k].name = name
            /\ \A j \in 1..(k - 1) : t[j].name # name
    ELSE Len(t)

\* repos.findIndex(repo => repo.name === repoName); 0 stands for -1
findIndex(t, name) ==
    IF \E k \in 1..Len(t) : t[k].name = name
    THEN CHOOSE k \in 1..Len(t) :
            /\ t[k].name = name
            /\ \A j \in 1..(k - 1) : t[j].name # name
    ELSE 0

\* Object.assign(record, updates)
Assign(rec, updates) ==
    [f \in DOMAIN rec |-> IF f \in DOMAIN updates THEN updates[f] ELSE rec[f]]

\* mutant of finalize: a completing patch is merged like any other
finalizeNothing(rec, updates) == rec

\* updateRepoStatus lines 77-82: completion clears processing and error
finalize(rec, updates) ==
    IF "transferred" \in DOMAIN updates /\ updates.transferred = TRUE
    THEN [rec EXCEPT !.processing = FALSE, !.error = Null, !.pushed_at = Stamp]
    ELSE rec

\* updateRepoStatus between its load and its save: the table to be saved
\* (the call throws NotFound, and saves nothing, when findIndex gives -1)
applyUpdate(t, name, updates) ==
    LET k == findIndex(t, name) IN
    IF k = 0 THEN t
    ELSE [t EXCEPT ![k] = finalize(Assign(t[k], updates), updates)]

\* mutant of pendingFilter: the processing flag is not checked
pendingFilterIgnoresProcessing(r) ==
    ~r.transferred /\ r.retry_count < RetryCeiling

pendingFilter(r) ==
    ~r.transferred /\ ~r.processing /\ r.retry_count < RetryCeiling

\* mutant of getPendingRepos: the filtered records come back last first
getPendingReposReversed(t) ==
    LET p == SelectSeq(t, pendingFilter)
    IN  [i \in 1..Len(p) |-> p[Len(p) + 1 - i]]

\* getPendingRepos on a loaded table
getPendingRepos(t) == SelectSeq(t, pendingFilter)

failedFilter(r) == r.error # Null /\ ~r.transferred

\* getFailedRepos on a loaded table
getFailedRepos(t) == SelectSeq(t, failedFilter)

processingPatch == [processing |-> TRUE, error |-> Null]

completedPatch(createdAt) ==
    [transferred |-> TRUE, processing |-> FALSE, error |-> Null,
     created_at |-> createdAt, pushed_at |-> Stamp]

\* markAsError line 121: repo ? repo.retry_count + 1 : 1
nextRetryCount(t, name) ==
    LET k == findIndex(t, name) IN
    IF k = 0 THEN 1 ELSE t[k].retry_count + 1

\* mutant of errorPatch: the processing flag is left as it is
errorPatchKeepsProcessing(msg, retryCount) ==
    [error |-> msg, retry_count |-> retryCount]

errorPatch(msg, retryCount) ==
    [processing |-> FALSE, error |-> msg, retry_count |-> retryCount]

\* mutant of clearErrorPatch: the retry count is not reset
clearErrorPatchKeepsCount == [error |-> Null]

clearErrorPatch == [error |-> Null, retry_count |-> 0]

\* mutant of resetTable: a record whose flag is reset loses its retry count
resetTableClearsCount(t) ==
    [k \in 1..Len(t) |->
        IF t[k].processing
        THEN [t[k] EXCEPT !.processing = FALSE, !.retry_count = 0] ELSE t[k]]

\* mutant of resetTable: the loop stops after the first flag it resets
resetTableFirstOnly(t) ==
    [k \in 1..Len(t) |->
        IF t[k].processing /\ \A j \in 1..(k - 1) : ~t[j].processing
        THEN [t[k] EXCEPT !.processing = FALSE] ELSE t[k]]

\* mutant of resetTable: the flags are counted but left set
resetTableKeepsFlags(t) == t

\* resetProcessingRepos: the table after the loop, and resetCount
resetTable(t) == [k \in 1..Len(t) |-> [t[k] EXCEPT !.processing = FALSE]]

\* mutant of resetCount: no flag is counted, so nothing is saved
resetCountNothing(t) == 0

resetCount(t) == Cardinality({k \in 1..Len(t) : t[k].processing})

(***************************************************************************)
(* Errors and the rate-limit check (lib/utils, lib/github-api)             *)
(***************************************************************************)
\* an axios error of a destination call: it carries the HTTP response
RateLimited == [status |-> 403, remaining |-> 0]
ServerError == [status |-> 500, remaining |-> 10]
ApiResponses == {RateLimited, ServerError}

NoResponse == [status |-> 0, remaining |-> 0]

\* new Error(message): a plain Error has no response property
plainError(msg) == [msg |-> msg, response |-> NoResponse]

\* no error caught
NoError == [msg |-> Null, response |-> NoResponse]

\* createRepository catch, lines 96-105: whatever failed inside, a new Error
\* built from the message alone is thrown
wrapCreateError(response) == plainError("create")

\* checkRateLimit(error): status 403 and x-ratelimit-remaining 0
checkRateLimit(error) ==
    /\ error.response # NoResponse
    /\ error.response.status = 403
    /\ error.response.remaining = 0

(***************************************************************************)
(* The size threshold (lib/config, lib/lfs-manager)                        *)
(***************************************************************************)
\* config.js: defaultThreshold: '50MB'
DefaultThreshold == <<"5", "0", "M", "B">>

\* threshold strings a configuration may hold
Thresholds == {DefaultThreshold, <<"5", "0", " ", "m", "b">>, <<"5", "0", "M">>}

Digit == {"0", "1", "2", "3", "4", "5", "6", "7", "8", "9"}
Units == {<<"B">>, <<"K", "B">>, <<"M", "B">>, <<"G", "B">>}

\* unit.toUpperCase(), on the letters a unit is made of
toUpperCase(c) ==
    CASE c = "b" -> "B" [] c = "k" -> "K" [] c = "m" -> "M" [] c = "g" -> "G"
      [] OTHER -> c

\* the length of the longest run of characters of `class` in s from index i
runFrom(s, i, class) ==
    CHOOSE n \in 0..Len(s) :
        /\ \A j \in i..(i + n - 1) : j <= Len(s) /\ s[j] \in class
        /\ (i + n > Len(s) \/ s[i + n] \notin class)

\* sizeStr.match(/^(\d+(?:\.\d+)?)\s*(B|KB|MB|GB)$/i) is not null
sizeMatches(s) ==
    LET n == runFrom(s, 1, Digit)
        frac == IF n + 1 <= Len(s) /\ s[n + 1] = "." THEN runFrom(s, n + 2, Digit) ELSE 0
        e == IF frac > 0 THEN n + 1 + frac ELSE n
        u == e + runFrom(s, e + 1, {" "}) + 1
    IN  /\ n >= 1
        /\ [i \in 1..(Len(s) - u + 1) |-> toUpperCase(s[u + i - 1])] \in Units

\* autoDetectLFSFiles / isFileOversized: a file over the size limit is
\* reported when parseSize(threshold) gives a number; when parseSize throws,
\* isFileOversized returns false for every file
detectsOversized(thr, oversized) == oversized /\ sizeMatches(thr)

DigitSeq == <<"0", "1", "2", "3", "4", "5", "6", "7", "8", "9">>

digitValue(c) == (CHOOSE i \in 1..10 : DigitSeq[i] = c) - 1

\* the number written by the digits s[i..j]
RECURSIVE digitsValue(_, _, _)
digitsValue(s, i, j) ==
    IF j < i THEN 0 ELSE digitsValue(s, i, j - 1) * 10 + digitValue(s[j])

RECURSIVE pow10(_)
pow10(n) == IF n = 0 THEN 1 ELSE 10 * pow10(n - 1)

\* parseSize: the units table
unitBytes(unit) ==
    CASE unit = <<"B">> -> 1
      [] unit = <<"K", "B">> -> 1024
      [] unit = <<"M", "B">> -> 1024 * 1024
      [] unit = <<"G", "B">> -> 1024 * 1024 * 1024

\* the groups of the match of parseSize's pattern on a string it accepts:
\* the digits before the point, the digits after it, and the unit
sizeGroups(s) ==
    LET n == runFrom(s, 1, Digit)
        frac == IF n + 1 <= Len(s) /\ s[n + 1] = "." THEN runFrom(s, n + 2, Digit) ELSE 0
        e == IF frac > 0 THEN n + 1 + frac ELSE n
        u == e + runFrom(s, e + 1, {" "}) + 1
    IN  [whole |-> digitsValue(s, 1, n),
         fraction |-> digitsValue(s, n + 2, n + 1 + frac),
         places |-> frac,
         unit |-> [i \in 1..(Len(s) - u + 1) |-> toUpperCase(s[u + i - 1])]]

\* parseSize(sizeStr) for a string the pattern accepts:
\* parseFloat(size) * units[unit.toUpperCase()], kept as the exact fraction
\* num / den (den is 10 to the number of decimal places)
parseSize(s) ==
    LET g == sizeGroups(s)
    IN  [num |-> (g.whole * pow10(g.places) + g.fraction) * unitBytes(g.unit),
         den |-> pow10(g.places)]

\* size > thresholdBytes
exceeds(size, bytes) == size * bytes.den > bytes.num

\* str.replace('MB', ''): the first 'MB' of the string is taken out
replaceMB(s) ==
    IF \E i \in 1..(Len(s) - 1) : s[i] = "M" /\ s[i + 1] = "B"
    THEN LET i == CHOOSE k \in 1..(Len(s) - 1) :
                      /\ s[k] = "M" /\ s[k + 1] = "B"
                      /\ \A j \in 1..(k - 1) : ~(s[j] = "M" /\ s[j + 1] = "B")
         IN  SubSeq(s, 1, i - 1) \o SubSeq(s, i + 2, Len(s))
    ELSE s

\* parseInt(str) of a string that starts with a digit: its leading digits
parseInt(s) == digitsValue(s, 1, runFrom(s, 1, Digit))

(***************************************************************************)
(* LFS detection and strategy selection (lib/lfs-manager)                  *)
(***************************************************************************)
MaxCommits == 2        \* commits in the history of a cloned repository
ScanLimit == 50        \* Math.min(commits.length, 50)

Paths == {"a.bin", "b.bin"}

\* the order in which git ls-tree lists the paths of a tree
PathSeq == <<"a.bin", "b.bin">>
Absent == 0            \* the size entered for a path a tree does not hold
FileSizes == {1024, 60 * 1024 * 1024}

\* a tree: the size of every path in it
Trees == [Paths -> {Absent} \cup FileSizes]

\* git rev-list --all: the trees of the commits, the newest first; the
\* working tree of a fresh clone is the first of them
ShortHistories == UNION {[1..n -> Trees] : n \in 1..MaxCommits}

\* histories one commit longer than the scan goes: the newest ScanLimit
\* commits hold one tree, the commit before them another
LongHistories ==
    {[i \in 1..(ScanLimit + 1) |-> IF i <= ScanLimit THEN t ELSE u] :
        t \in Trees, u \in Trees}

Histories == ShortHistories \cup LongHistories

\* the commits for which git ls-tree throws: none, or one of them
Unreadables == {{}} \cup {{i} : i \in 1..MaxCommits}

\* repository names: "constructor" is also a key every JavaScript object
\* inherits from Object.prototype
DetectNames == {"repo", "constructor"}
PrototypeKeys == {"constructor"}

AllFilesPattern == "**/*"

\* an entry of settings.repositories; own = FALSE: the table has no such key
NoEntry == [own |-> FALSE, files |-> {}, patterns |-> {}, autoDetect |-> FALSE]

Entries ==
    [own : {TRUE}, files : SUBSET Paths, patterns : SUBSET {AllFilesPattern},
     autoDetect : BOOLEAN]

\* lfs-settings.json: missing (or unreadable), an object with no
\* `repositories` key, or an object whose `repositories` is a table
ConfigSources ==
    {[kind |-> k, repositories |-> [n \in DetectNames |-> NoEntry]] :
        k \in {"absent", "norepos", "table"}}
    \cup {[kind |-> "table",
           repositories |-> [n \in DetectNames |-> IF n = "repo" THEN e ELSE NoEntry]] :
            e \in Entries}

\* loadSettings: the parsed file, or { repositories: {} } when it cannot be read
loadSettings(source) ==
    [hasRepositories |-> source.kind # "norepos",
     repositories |-> IF source.kind = "table" THEN source.repositories
                      ELSE [n \in DetectNames |-> NoEntry]]

NoSettings == [hasRepositories |-> FALSE,
               repositories |-> [n \in DetectNames |-> NoEntry]]

\* this.settings.repositories[repoName]: the table's own entry, else what
\* the key names on Object.prototype (a function: truthy, with no files,
\* patterns or autoDetect), else undefined
repositoriesAt(settings, name) ==
    IF settings.repositories[name].own
    THEN [truthy |-> TRUE, entry |-> settings.repositories[name]]
    ELSE [truthy |-> name \in PrototypeKeys, entry |-> NoEntry]

\* hasLFSConfig / getLFSMode; reading a key of an undefined `repositories`
\* throws a TypeError
getLFSMode(settings, name) ==
    IF ~settings.hasRepositories THEN "TypeError"
    ELSE IF repositoriesAt(settings, name).truthy THEN "configured"
    ELSE "auto-detect"

present(tree, p) == tree[p] # Absent

\* autoDetectLFSFiles: the files of the working tree for which
\* isFileOversized is true (it is false for every file when parseSize throws)
autoDetectLFSFiles(tree, thr) ==
    IF sizeMatches(thr)
    THEN {p \in Paths : present(tree, p) /\ exceeds(tree[p], parseSize(thr))}
    ELSE {}

\* glob(pattern, { cwd: repoPath }) for the pattern that matches every file
glob(pattern, tree) == {p \in Paths : present(tree, p)}

Min(a, b) == IF a < b THEN a ELSE b

\* the elements of a list
toSet(list) == {list[j] : j \in 1..Len(list)}

\* the line of git ls-tree -r -l on which a path comes
lineOf(p) == CHOOSE j \in 1..Len(PathSeq) : PathSeq[j] = p

\* a loop that gives up at the first commit whose git ls-tree throws
listedCommitsUntilThrow(commits, unreadable) ==
    {i \in 1..Min(Len(commits), ScanLimit) : \A k \in 1..i : k \notin unreadable}

\* for (let i = 0; i < maxCommits; i++) with maxCommits =
\* Math.min(commits.length, 50): the commits whose lines the loop goes
\* through; a commit whose git ls-tree throws is passed over (catch: continue)
listedCommits(commits, unreadable) ==
    {i \in 1..Min(Len(commits), ScanLimit) : i \notin unreadable}

\* a line of a commit passes `size > threshold`
oversizedLine(tree, p, thresholdBytes) ==
    present(tree, p) /\ exceeds(tree[p], thresholdBytes)

\* the commit in whose pass largeFiles.add(p) first inserted p
firstAdded(commits, listed, p, thresholdBytes) ==
    CHOOSE i \in listed :
        /\ oversizedLine(commits[i], p, thresholdBytes)
        /\ \A k \in listed : k < i => ~oversizedLine(commits[k], p, thresholdBytes)

\* detectLargeFilesInHistory: Array.from(largeFiles) after the loop; a Set
\* holds what was added, each element once, in the order of first insertion
\* (by commit, then by line)
detectLargeFilesInHistory(commits, unreadable, thr) ==
    LET thresholdBytes == parseSize(thr)
        listed == listedCommits(commits, unreadable)
        largeFiles ==
            {p \in Paths :
                \E i \in listed : oversizedLine(commits[i], p, thresholdBytes)}
        earlier(q, p) ==
            LET iq == firstAdded(commits, listed, q, thresholdBytes)
                ip == firstAdded(commits, listed, p, thresholdBytes)
            IN  iq < ip \/ (iq = ip /\ lineOf(q) < lineOf(p))
    IN  [n \in 1..Cardinality(largeFiles) |->
            CHOOSE p \in largeFiles :
                Cardinality({q \in largeFiles : earlier(q, p)}) = n - 1]

\* a scan whose configured branch drops the listed files that are missing
scanLFSFilesDropsMissing(settings, name, commits, unreadable, thr) ==
    LET tree == commits[1]
        mode == getLFSMode(settings, name)
        cfg == repositoriesAt(settings, name).entry
        auto == autoDetectLFSFiles(tree, thr)
        lfsFiles ==
            IF mode = "configured"
            THEN {f \in cfg.files : present(tree, f)}
                 \cup UNION {glob(pt, tree) : pt \in cfg.patterns}
                 \cup (IF cfg.autoDetect THEN auto ELSE {})
            ELSE auto
        list == IF sizeMatches(thr)
                THEN detectLargeFilesInHistory(commits, unreadable, thr) ELSE <<>>
        scanned == toSet(list)
    IN  [files |-> lfsFiles, historyFiles |-> scanned, scanned |-> scanned,
         list |-> list, allFiles |-> lfsFiles \cup scanned,
         mode |-> mode, hasConfig |-> mode = "configured"]

\* scanLFSFiles: files = the current files, historyFiles = the configured
\* files that are missing and what the history scan reports (nothing when
\* it throws, which is caught); list keeps the history scan's own report,
\* scanned the paths in it
scanLFSFiles(settings, name, commits, unreadable, thr) ==
    LET tree == commits[1]
        mode == getLFSMode(settings, name)
        cfg == repositoriesAt(settings, name).entry
        auto == autoDetectLFSFiles(tree, thr)
        lfsFiles ==
            IF mode = "configured"
            THEN {f \in cfg.files : present(tree, f)}
                 \cup UNION {glob(pt, tree) : pt \in cfg.patterns}
                 \cup (IF cfg.autoDetect THEN auto ELSE {})
            ELSE auto
        missing == IF mode = "configured"
                   THEN {f \in cfg.files : ~present(tree, f)} ELSE {}
        list == IF sizeMatches(thr)
                THEN detectLargeFilesInHistory(commits, unreadable, thr) ELSE <<>>
        scanned == toSet(list)
    IN  [files |-> lfsFiles, historyFiles |-> missing \cup scanned,
         scanned |-> scanned, list |-> list,
         allFiles |-> lfsFiles \cup missing \cup scanned,
         mode |-> mode, hasConfig |-> mode = "configured"]

NoScan == [files |-> {}, historyFiles |-> {}, scanned |-> {}, list |-> <<>>,
           allFiles |-> {},
           mode |-> Null, hasConfig |-> FALSE]

NoBytes == [num |-> 0, den |-> 1]

NoStrategy == [tag |-> Null, above |-> NoBytes, include |-> {}]

\* `--above=${thresholdMB}MB` with thresholdMB =
\* parseInt(getDefaultThreshold().replace('MB', '')), in bytes by the units
\* table of parseSize
aboveOption(thr) ==
    [num |-> parseInt(replaceMB(thr)) * unitBytes(<<"M", "B">>), den |-> 1]

\* a selection that looks at the current files first
selectStrategyCurrentFirst(scan, thr) ==
    IF scan.allFiles = {} THEN [NoStrategy EXCEPT !.tag = "none"]
    ELSE IF scan.files # {}
    THEN [NoStrategy EXCEPT !.tag = "B", !.include = scan.files]
    ELSE [NoStrategy EXCEPT !.tag = "A", !.above = aboveOption(thr)]

\* setupLFS, lines 329-337 and 398-424: which git lfs migrate import runs
selectStrategy(scan, thr) ==
    IF scan.allFiles = {} THEN [NoStrategy EXCEPT !.tag = "none"]
    ELSE IF scan.historyFiles # {}
    THEN [NoStrategy EXCEPT !.tag = "A", !.above = aboveOption(thr)]
    ELSE IF scan.files # {}
    THEN [NoStrategy EXCEPT !.tag = "B", !.include = scan.files]
    ELSE [NoStrategy EXCEPT !.tag = "none"]

\* no handleLFS call is followed on its own
NoDet ==
    [stage |-> "idle", name |-> "repo",
     source |-> [kind |-> "absent", repositories |-> [n \in DetectNames |-> NoEntry]],
     settings |-> NoSettings, commits |-> <<[p \in Paths |-> Absent]>>,
     unreadable |-> {},
     existing |-> FALSE, scan |-> NoScan, strategy |-> NoStrategy]

(***************************************************************************)
(* Locals of the main flow                                                 *)
(***************************************************************************)
\* name, createResult, err: locals of migrateRepository; tries: attempt of
\* retry(); second: the call is the one made after a rate-limit wait;
\* quota: the create step failed on a rate-limit response; rc0: the
\* record's retry_count when the first call for it began; lfs: what
\* handleLFS came to ("none": nothing to rewrite, "missed": oversized files
\* taken for small ones, "done" / "failed": the history rewrite ran and
\* succeeded / threw), known until the push
NoAtt ==
    [name |-> 0, createResult |-> Null, tries |-> 0, err |-> NoError,
     quota |-> FALSE, second |-> FALSE, rc0 |-> 0, lfs |-> "none"]

NoPatch == [processing |-> FALSE]

NoOp == [kind |-> Null, name |-> 0, updates |-> NoPatch, loaded |-> <<>>,
         next |-> Null, thrown |-> Null]

\* a call of updateRepoStatus(name, updates) about to load
updateOp(name, updates, next, thrown) ==
    [kind |-> "update", name |-> name, updates |-> updates, loaded |-> <<>>,
     next |-> next, thrown |-> thrown]

\* a call of resetProcessingRepos() about to load
resetOp(next) ==
    [kind |-> "reset", name |-> 0, updates |-> NoPatch, loaded |-> <<>>,
     next |-> next, thrown |-> Null]

namesOf(t) == [k \in 1..Len(t) |-> t[k].name]

recordOf(t, name) == t[findIndex(t, name)]

\* what a state-store call gave back: the call, its argument, whether it
\* threw, the count (resetProcessingRepos) or the list (getPendingRepos,
\* getFailedRepos) it returned
NoRet == [call |-> Null, name |-> 0, thrown |-> FALSE, count |-> 0,
          list |-> <<>>]

Running == pc # "off"

\* the process is gone: every local of it is gone with it
ProcessGone ==
    /\ pc' = "off"
    /\ pending' = <<>>
    /\ idx' = 0
    /\ att' = NoAtt
    /\ op' = NoOp
    /\ failedList' = <<>>
    /\ cleared' = 0
    /\ hpc' = "none"
    /\ hloaded' = <<>>
    /\ snapshot' = <<>>

InitRun(thresholds) ==
    /\ table = FreshTable
    /\ gh \in [Names -> {"absent", "empty", "nonempty"}]
    /\ wc = {}
    /\ pc = "off"
    /\ pending = <<>>
    /\ idx = 0
    /\ att = NoAtt
    /\ op = NoOp
    /\ failedList = <<>>
    /\ cleared = 0
    /\ hpc = "none"
    /\ hloaded = <<>>
    /\ sigs = 0
    /\ threshold \in thresholds
    /\ snapshot = <<>>
    /\ ret = NoRet

\* the program as shipped: the threshold of config.js
Init == InitRun({DefaultThreshold}) /\ det = NoDet

persistent == <<table, gh, wc, sigs, threshold>>
handler == <<hpc, hloaded>>
loopVars == <<pending, idx, failedList, cleared>>

(***************************************************************************)
(* State-store calls of the main flow, one step per await                  *)
(***************************************************************************)
\* loadRepos of updateRepoStatus / resetProcessingRepos, up to the save:
\* NotFound throws, and a reset that counted nothing returns without saving
StoreLoad ==
    /\ pc = "s_load"
    /\ IF op.kind = "update" /\ findIndex(table, op.name) = 0
       THEN /\ pc' = op.thrown
            /\ op' = NoOp
            /\ att' = [att EXCEPT !.err = plainError("store")]
       ELSE IF op.kind = "reset" /\ resetCount(table) = 0
       THEN /\ pc' = op.next
            /\ op' = NoOp
            /\ att' = att
       ELSE /\ pc' = "s_save"
            /\ op' = [op EXCEPT !.loaded = table]
            /\ att' = att
    /\ UNCHANGED <<persistent, loopVars, handler, ret, snapshot, det>>

\* saveRepos of the call in flight: the whole loaded table is written back
StoreSave ==
    /\ pc = "s_save"
    /\ table' = IF op.kind = "update"
                THEN applyUpdate(op.loaded, op.name, op.updates)
                ELSE resetTable(op.loaded)
    /\ pc' = op.next
    /\ op' = NoOp
    /\ UNCHANGED <<gh, wc, att, loopVars, handler, sigs, threshold, ret, snapshot, det>>

(***************************************************************************)
(* main(), retryFailed() and migrate() (do-migrate-repos)                  *)
(***************************************************************************)
\* migrate() up to its first await: checkDependencies() passes and
\* resetProcessingRepos() is called, or it throws (git or git-lfs is
\* missing), the outer catch rethrows and the finally block runs
enterMigrate ==
    \/ /\ op' = resetOp("m_backup")
       /\ pc' = "s_load"
    \/ /\ op' = op
       /\ pc' = "f_cleanup"

\* node do-migrate-repos.js
StartMigrate ==
    /\ pc = "off"
    /\ enterMigrate
    /\ UNCHANGED <<persistent, att, loopVars, handler, ret, snapshot, det>>

\* node do-migrate-repos.js --retry: retryFailed() reads the failed list
StartRetry ==
    /\ pc = "off"
    /\ failedList' = namesOf(getFailedRepos(table))
    /\ cleared' = 0
    /\ pc' = IF getFailedRepos(table) = <<>> THEN "off" ELSE "rf_clear"
    /\ UNCHANGED <<persistent, att, op, pending, idx, handler, ret, snapshot, det>>

\* retryFailed(): clearError for each failed record, then migrate()
RetryClear ==
    /\ pc = "rf_clear"
    /\ IF cleared = Len(failedList)
       THEN /\ enterMigrate
            /\ cleared' = cleared
       ELSE /\ op' = updateOp(failedList[cleared + 1], clearErrorPatch, "rf_clear", "off")
            /\ pc' = "s_load"
            /\ cleared' = cleared + 1
    /\ failedList' = failedList
    /\ UNCHANGED <<persistent, att, pending, idx, handler, ret, snapshot, det>>

\* a backup() that writes the first record only
BackupFirstRecordOnly ==
    /\ pc = "m_backup"
    /\ snapshot' = SubSeq(table, 1, 1)
    /\ pc' = "m_pending"
    /\ UNCHANGED <<persistent, att, op, loopVars, handler, ret, det>>

\* backup(): loadRepos, then the loaded table is written, whole, to a new
\* file repos-backup-<timestamp>.json
Backup ==
    /\ pc = "m_backup"
    /\ snapshot' = table
    /\ pc' = "m_pending"
    /\ UNCHANGED <<persistent, att, op, loopVars, handler, ret, det>>

\* ensureTempDir() (no effect on the state), then
\* pendingRepos = await getPendingRepos(); an empty list ends the run
ComputePending ==
    /\ pc = "m_pending"
    /\ pending' = namesOf(getPendingRepos(table))
    /\ idx' = 1
    /\ pc' = IF getPendingRepos(table) = <<>> THEN "f_cleanup" ELSE "loop"
    /\ UNCHANGED <<persistent, att, op, failedList, cleared, handler, ret, snapshot, det>>

\* the start of a migrateRepository(repo) call: markAsProcessing
beginAttempt(name, second, quota, rc0) ==
    /\ att' = [NoAtt EXCEPT !.name = name, !.second = second,
                            !.quota = quota, !.rc0 = rc0]
    /\ op' = updateOp(name, processingPatch, "a_create", "c_cleanup")
    /\ pc' = "s_load"

\* for (i = 0; i < pendingRepos.length; i++) migrateRepository(pendingRepos[i])
LoopStep ==
    /\ pc = "loop"
    /\ IF idx > Len(pending)
       THEN /\ pc' = "f_cleanup"
            /\ UNCHANGED <<att, op>>
       ELSE beginAttempt(pending[idx], FALSE, FALSE,
                         recordOf(table, pending[idx]).retry_count)
    /\ UNCHANGED <<persistent, loopVars, handler, ret, snapshot, det>>

(***************************************************************************)
(* migrateRepository(repo): the attempt                                    *)
(***************************************************************************)
\* a createRepository that takes any destination that exists for an empty one
createSucceedsOnAnyDestination(name) ==
    /\ att' = [att EXCEPT
                 !.createResult = IF gh[name] = "absent" THEN "created" ELSE "skipped",
                 !.tries = att.tries + 1]
    /\ gh' = [gh EXCEPT ![name] = IF gh[name] = "absent" THEN "empty" ELSE gh[name]]
    /\ pc' = "a_clone"

\* one try of createRepository(name, false) that returns: a destination that
\* is absent is created, one that exists and is empty is kept (skipped)
createSucceeds(name) ==
    /\ gh[name] \in {"absent", "empty"}
    /\ att' = [att EXCEPT
                 !.createResult = IF gh[name] = "absent" THEN "created" ELSE "skipped",
                 !.tries = att.tries + 1]
    /\ gh' = [gh EXCEPT ![name] = "empty"]
    /\ pc' = "a_clone"

\* the causes for which one try of createRepository throws: a destination
\* call that fails with an HTTP response, or "exists and is not empty"
createFailures(name) ==
    ApiResponses \cup (IF gh[name] = "nonempty" THEN {NoResponse} ELSE {})

\* retry(fn, 3, 2000): the last error is thrown after the third failed try
createFails(name) ==
    \E cause \in createFailures(name) :
        /\ att' = [att EXCEPT
                     !.tries = att.tries + 1,
                     !.quota = att.tries + 1 = CreateRetries /\ cause = RateLimited,
                     !.err = IF att.tries + 1 = CreateRetries
                             THEN wrapCreateError(cause) ELSE att.err]
        /\ pc' = IF att.tries + 1 = CreateRetries THEN "c_cleanup" ELSE "a_create"
        /\ gh' = gh

\* step 2: createResult = await retry(() => createRepository(name, false), 3, 2000)
CreateRepository ==
    /\ pc = "a_create"
    /\ \/ createSucceeds(att.name)
       \/ createFails(att.name)
    /\ UNCHANGED <<table, wc, op, loopVars, handler, sigs, threshold, ret, snapshot, det>>

\* a cleanupRepo that leaves the directory where it is
cleanupRepoKeeps(name) == wc

\* cleanupRepo(name): fs.rm of temp/<name>, recursive and forced
cleanupRepo(name) == wc \ {name}

\* step 3, cloneBitbucketRepo up to its git clone: await cleanupRepo(name)
CloneCleanup ==
    /\ pc = "a_clone"
    /\ wc' = cleanupRepo(att.name)
    /\ pc' = "a_gitclone"
    /\ UNCHANGED <<table, gh, att, op, loopVars, handler, sigs, threshold, ret, snapshot, det>>

\* step 3, the rest: git clone into temp/<name>, which leaves nothing behind
\* when it fails
CloneBitbucketRepo ==
    /\ pc = "a_gitclone"
    /\ \/ /\ wc' = wc \cup {att.name}
          /\ pc' = "a_lfs"
          /\ att' = att
       \/ /\ wc' = wc
          /\ pc' = "c_cleanup"
          /\ att' = [att EXCEPT !.err = plainError("clone")]
    /\ UNCHANGED <<table, gh, op, loopVars, handler, sigs, threshold, ret, snapshot, det>>

\* setupLFS in auto-detect mode, for a working copy that holds an oversized
\* file or not: nothing detected, nothing rewritten; otherwise
\* `git lfs migrate import` runs, and when it throws the error is caught
\* (lines 449-452) and setupLFS goes on with the files one by one
setupLFS(oversized) ==
    IF detectsOversized(threshold, oversized)
    THEN {"done", "failed"}
    ELSE IF oversized THEN {"missed"} ELSE {"none"}

\* step 4: handleLFS (detection and history rewrite), which returns what
\* setupLFS came to, or throws; enableLFS swallows its own errors
HandleLFS ==
    /\ pc = "a_lfs"
    /\ \/ \E oversized \in BOOLEAN :
             \E result \in setupLFS(oversized) :
                 /\ pc' = "a_push"
                 /\ att' = [att EXCEPT !.lfs = result]
       \/ /\ pc' = "c_cleanup"
          /\ att' = [att EXCEPT !.err = plainError("lfs")]
    /\ UNCHANGED <<persistent, op, loopVars, handler, ret, snapshot, det>>

\* steps 5-7: pushToGitHub, cleanupRepo, then markAsCompleted is called; a
\* push that fails may already have written to the destination
PushToGitHub ==
    /\ pc = "a_push"
    /\ \/ /\ gh' = [gh EXCEPT ![att.name] = "nonempty"]
          /\ wc' = cleanupRepo(att.name)
          /\ op' = updateOp(att.name, completedPatch(Stamp), "m_next", "c_cleanup")
          /\ pc' = "s_load"
          /\ att' = [att EXCEPT !.lfs = "none"]
       \/ \E partial \in BOOLEAN :
             /\ gh' = IF partial THEN [gh EXCEPT ![att.name] = "nonempty"] ELSE gh
             /\ wc' = wc
             /\ op' = op
             /\ pc' = "c_cleanup"
             /\ att' = [att EXCEPT !.err = plainError("push"), !.lfs = "none"]
    /\ UNCHANGED <<table, loopVars, handler, sigs, threshold, ret, snapshot, det>>

\* lines 116-118: the condition under which the catch deletes the destination
deletesDestination(createResult) ==
    createResult = Null \/ createResult # "skipped"

\* catch of migrateRepository: deleteRepository (under the condition above)
\* and cleanupRepo
CatchCleanup ==
    /\ pc = "c_cleanup"
    /\ gh' = IF deletesDestination(att.createResult)
             THEN [gh EXCEPT ![att.name] = "absent"] ELSE gh
    /\ wc' = cleanupRepo(att.name)
    /\ pc' = "c_markerr"
    /\ UNCHANGED <<table, att, op, loopVars, handler, sigs, threshold, ret, snapshot, det>>

\* markAsError up to its call of updateRepoStatus: the new retry_count is
\* computed from a first load of the table
MarkAsError ==
    /\ pc = "c_markerr"
    /\ op' = updateOp(att.name,
                      errorPatch(att.err.msg, nextRetryCount(table, att.name)),
                      "m_catch", "m_catch")
    /\ pc' = "s_load"
    /\ UNCHANGED <<persistent, att, loopVars, handler, ret, snapshot, det>>

\* catch of migrate(): on a rate-limit error wait and call migrateRepository
\* once more; when that call throws too, updateRepoStatus({processing: false})
MigrateCatch ==
    /\ pc = "m_catch"
    /\ IF att.second
       THEN /\ op' = updateOp(att.name, [processing |-> FALSE], "m_next", "f_cleanup")
            /\ pc' = "s_load"
            /\ att' = att
       ELSE IF checkRateLimit(att.err)
       THEN beginAttempt(att.name, TRUE, att.quota, att.rc0)
       ELSE /\ pc' = "m_next"
            /\ UNCHANGED <<att, op>>
    /\ UNCHANGED <<persistent, loopVars, handler, ret, snapshot, det>>

\* continue / i++
NextRepo ==
    /\ pc = "m_next"
    /\ idx' = idx + 1
    /\ pc' = "loop"
    /\ UNCHANGED <<persistent, att, op, pending, failedList, cleared, handler, ret,
                   snapshot, det>>

\* a cleanup() that removes the working copies and resets nothing
FinalCleanupWithoutReset ==
    /\ pc = "f_cleanup"
    /\ wc' = {}
    /\ op' = op
    /\ pc' = "f_end"
    /\ UNCHANGED <<table, gh, att, loopVars, handler, sigs, threshold, ret, snapshot, det>>

\* finally of migrate(): cleanup() = cleanupAll(), resetProcessingRepos()
FinalCleanup ==
    /\ pc = "f_cleanup"
    /\ wc' = {}
    /\ op' = resetOp("f_end")
    /\ pc' = "s_load"
    /\ UNCHANGED <<table, gh, att, loopVars, handler, sigs, threshold, ret, snapshot, det>>

\* main() returns: the process ends, unless the signal handler still runs
MainEnds ==
    /\ pc = "f_end"
    /\ IF hpc = "none"
       THEN ProcessGone
       ELSE /\ pc' = "ended"
            /\ UNCHANGED <<att, op, loopVars, handler, snapshot>>
    /\ UNCHANGED <<persistent, ret, det>>

(***************************************************************************)
(* Interrupts                                                              *)
(***************************************************************************)
\* the process is killed or the machine stops: no handler runs
Crash ==
    /\ Running
    /\ ProcessGone
    /\ UNCHANGED <<persistent, ret, det>>

\* SIGINT / SIGTERM / SIGQUIT: handleProcessExit's listener starts cleanup()
Signal ==
    /\ Running
    /\ hpc = "none"
    /\ sigs < MaxSignals
    /\ sigs' = sigs + 1
    /\ hpc' = "h_cleanup"
    /\ UNCHANGED <<table, gh, wc, pc, att, op, loopVars, hloaded, threshold, ret, snapshot, det>>

\* cleanup(): await gitOps.cleanupAll()
HandlerCleanupAll ==
    /\ hpc = "h_cleanup"
    /\ wc' = {}
    /\ hpc' = "h_load"
    /\ UNCHANGED <<table, gh, pc, att, op, loopVars, hloaded, sigs, threshold, ret, snapshot, det>>

\* cleanup(): resetProcessingRepos() loads; nothing counted, nothing saved
HandlerLoad ==
    /\ hpc = "h_load"
    /\ hloaded' = table
    /\ hpc' = IF resetCount(table) = 0 THEN "h_exit" ELSE "h_save"
    /\ UNCHANGED <<persistent, pc, att, op, loopVars, ret, snapshot, det>>

\* cleanup(): resetProcessingRepos() saves the table it loaded
HandlerSave ==
    /\ hpc = "h_save"
    /\ table' = resetTable(hloaded)
    /\ hpc' = "h_exit"
    /\ UNCHANGED <<gh, wc, pc, att, op, loopVars, hloaded, sigs, threshold, ret, snapshot, det>>

\* process.exit(0)
HandlerExit ==
    /\ hpc = "h_exit"
    /\ ProcessGone
    /\ UNCHANGED <<persistent, ret, det>>

MainStep ==
    \/ StartMigrate \/ StartRetry \/ RetryClear \/ StoreLoad \/ StoreSave
    \/ Backup \/ ComputePending \/ LoopStep \/ CreateRepository
    \/ CloneCleanup \/ CloneBitbucketRepo \/ HandleLFS \/ PushToGitHub \/ CatchCleanup
    \/ MarkAsError \/ MigrateCatch \/ NextRepo \/ FinalCleanup \/ MainEnds

HandlerStep ==
    \/ Signal \/ HandlerCleanupAll \/ HandlerLoad \/ HandlerSave \/ HandlerExit

\* runs of the program, one after the other, any of which may be killed
Next == MainStep \/ Crash

Spec == Init /\ [][Next]_vars

\* the same runs under any threshold string the configuration may hold
InitConfig == InitRun(Thresholds) /\ det = NoDet

SpecConfig == InitConfig /\ [][Next]_vars

\* where the main flow goes on when the state-store call it awaits throws
\* (loadRepos / saveRepos cannot read or write repos.json): the catch of
\* migrateRepository for markAsProcessing and markAsCompleted, the catch of
\* migrate()'s loop for markAsError, the catch of cleanup() for its reset,
\* the outer catch and finally of migrate() for the startup calls, and
\* main()'s catch (process.exit(1)) for clearError and for showStatistics
\* in the finally
storeThrowsTo ==
    IF pc \in {"s_load", "s_save"}
    THEN IF op.kind = "update" THEN op.thrown
         ELSE IF op.next = "f_end" THEN "f_end" ELSE "f_cleanup"
    ELSE IF pc = "c_markerr" THEN "m_catch"
    ELSE IF pc \in {"m_backup", "m_pending"} THEN "f_cleanup"
    ELSE "off"

\* the state-store call the main flow awaits throws StoreUnavailable; err
\* holds the error in flight
StoreFails ==
    /\ pc \in {"s_load", "s_save", "c_markerr", "m_backup", "m_pending",
             "f_cleanup"}
    /\ IF storeThrowsTo = "off"
       THEN ProcessGone
       ELSE /\ pc' = storeThrowsTo
            /\ op' = NoOp
            /\ att' = [att EXCEPT !.err = plainError("store")]
            /\ UNCHANGED <<loopVars, handler, snapshot>>
    /\ UNCHANGED <<persistent, ret, det>>

\* the runs of Spec on a machine where repos.json may be unreadable or
\* unwritable at any call
NextFault == Next \/ StoreFails

SpecFault == Init /\ [][NextFault]_vars

\* the same, with interrupt signals handled by handleProcessExit
NextSignal == MainStep \/ Crash \/ HandlerStep

SpecSignal == Init /\ [][NextSignal]_vars

(***************************************************************************)
(* Direct calls of the state store's public methods, one whole call per    *)
(* step (a single caller, nothing else running)                            *)
(***************************************************************************)
StoreNames == Names \cup {Ghost}
StoreMessages == {"push"}

\* patches a caller of updateRepoStatus may pass
UpdatePatches ==
    { [transferred |-> TRUE, processing |-> TRUE, error |-> "push"],
      [processing |-> FALSE] }

returned(call, name, thrown, count, list) ==
    [call |-> call, name |-> name, thrown |-> thrown, count |-> count,
     list |-> list]

\* updateRepoStatus(name, updates) as one step: load, merge, save, or throw
callUpdate(call, name, updates) ==
    /\ pc = "off"
    /\ table' = applyUpdate(table, name, updates)
    /\ ret' = returned(call, name, findIndex(table, name) = 0, 0, <<>>)
    /\ UNCHANGED <<gh, wc, pc, att, op, loopVars, handler, sigs, threshold, snapshot, det>>

StoreUpdate ==
    \E name \in StoreNames, updates \in UpdatePatches :
        callUpdate("updateRepoStatus", name, updates)

StoreMarkAsProcessing ==
    \E name \in StoreNames : callUpdate("markAsProcessing", name, processingPatch)

StoreMarkAsCompleted ==
    \E name \in StoreNames :
        callUpdate("markAsCompleted", name, completedPatch(Stamp))

StoreMarkAsError ==
    \E name \in StoreNames, msg \in StoreMessages :
        /\ nextRetryCount(table, name) <= MaxRetryCount
        /\ callUpdate("markAsError", name,
                      errorPatch(msg, nextRetryCount(table, name)))

StoreClearError ==
    \E name \in StoreNames : callUpdate("clearError", name, clearErrorPatch)

\* resetProcessingRepos(): saves only when it counted something
StoreReset ==
    /\ pc = "off"
    /\ table' = IF resetCount(table) > 0 THEN resetTable(table) ELSE table
    /\ ret' = returned("resetProcessingRepos", 0, FALSE, resetCount(table), <<>>)
    /\ UNCHANGED <<gh, wc, pc, att, op, loopVars, handler, sigs, threshold, snapshot, det>>

StoreGetPending ==
    /\ pc = "off"
    /\ ret' = returned("getPendingRepos", 0, FALSE, 0, getPendingRepos(table))
    /\ UNCHANGED <<table, gh, wc, pc, att, op, loopVars, handler, sigs, threshold, snapshot, det>>

StoreGetFailed ==
    /\ pc = "off"
    /\ ret' = returned("getFailedRepos", 0, FALSE, 0, getFailedRepos(table))
    /\ UNCHANGED <<table, gh, wc, pc, att, op, loopVars, handler, sigs, threshold, snapshot, det>>

NextStore ==
    \/ StoreUpdate \/ StoreMarkAsProcessing \/ StoreMarkAsCompleted
    \/ StoreMarkAsError \/ StoreClearError \/ StoreReset
    \/ StoreGetPending \/ StoreGetFailed

InitStore == Init /\ gh = [n \in Names |-> "absent"]

SpecStore == InitStore /\ [][NextStore]_vars

(***************************************************************************)
(* handleLFS(repoName) on a cloned repository, step by step                *)
(***************************************************************************)
\* threshold strings that parseSize accepts
DetectThresholds ==
    {DefaultThreshold, <<"1", "G", "B">>, <<"5", "0", "0", "K", "B">>,
     <<"1", ".", "5", "B">>}

\* a cloned repository, with or without files already in LFS
DetectInputs ==
    {[NoDet EXCEPT !.stage = "cloned", !.name = n, !.source = src,
                   !.commits = h, !.unreadable = u, !.existing = x] :
        n \in DetectNames, src \in ConfigSources, h \in Histories,
        u \in Unreadables, x \in BOOLEAN}

detFrame ==
    <<table, gh, wc, pc, pending, idx, att, op, failedList, cleared, hpc, hloaded,
      sigs, threshold, snapshot, ret>>

\* await this.lfsManager.loadSettings()
DetectLoadSettings ==
    /\ det.stage = "cloned"
    /\ det' = [det EXCEPT !.stage = "loaded", !.settings = loadSettings(det.source)]
    /\ UNCHANGED detFrame

\* getLFSMode, getExistingLFSFiles (a repository that has LFS files already
\* is returned as it is), then setupLFS up to its scanLFSFiles
DetectScan ==
    /\ det.stage = "loaded"
    /\ det' = IF getLFSMode(det.settings, det.name) = "TypeError"
              THEN [det EXCEPT !.stage = "thrown"]
              ELSE IF det.existing
              THEN [det EXCEPT !.stage = "existing"]
              ELSE [det EXCEPT !.stage = "scanned",
                               !.scan = scanLFSFiles(det.settings, det.name,
                                                     det.commits, det.unreadable,
                                                     threshold)]
    /\ UNCHANGED detFrame

\* setupLFS after the scan: the strategy and what is handed to git lfs
DetectSelect ==
    /\ det.stage = "scanned"
    /\ det' = [det EXCEPT !.stage = "selected",
                          !.strategy = selectStrategy(det.scan, threshold)]
    /\ UNCHANGED detFrame

NextDetect == DetectLoadSettings \/ DetectScan \/ DetectSelect

InitDetect ==
    /\ InitRun(DetectThresholds)
    /\ gh = [n \in Names |-> "absent"]
    /\ det \in DetectInputs

SpecDetect == InitDetect /\ [][NextDetect]_vars

(***************************************************************************)
(* Properties                                                              *)
(***************************************************************************)
Indexes == 1..Len(table)

\* C1: in every persisted table reachable by state-store calls, every record
\* with transferred = TRUE has processing = FALSE and error = null.
C1_TransferredIsClean ==
    \A k \in Indexes :
        table[k].transferred => ~table[k].processing /\ table[k].error = Null

\* C2: a destination that exists is deleted by a failed attempt only when
\* that same attempt created it.
C2_DeleteOnlyIfCreated ==
    [][\A n \in Names :
          (gh[n] # "absent" /\ gh'[n] = "absent") => att.createResult = "created"]_vars

inList(list, name) == \E j \in 1..Len(list) : list[j] = name

\* a step that begins a migrateRepository call for `name`
startsAttempt(name) ==
    /\ op.kind = Null
    /\ op'.kind = "update"
    /\ op'.name = name
    /\ op'.updates = processingPatch

\* the step is the save of a clearError(name) call of the main flow
savesClearError(name) ==
    /\ pc = "s_save"
    /\ pc' # "s_save"
    /\ op.kind = "update"
    /\ op.name = name
    /\ op.updates = clearErrorPatch

\* C3: while a record's retry_count is at the ceiling (3) no step marks it
\* Processing, no step begins an attempt on it, and only clearError takes
\* its retry_count below the ceiling again.
C3_CeilingIsTerminal ==
    [][\A k \in Indexes :
          table[k].retry_count >= RetryCeiling =>
              /\ ~(~table[k].processing /\ table'[k].processing)
              /\ ~startsAttempt(table[k].name)
              /\ table'[k].retry_count < RetryCeiling =>
                    savesClearError(table[k].name)]_vars

\* C4: a run computes its pending list only after every processing flag has
\* been reset; the list then holds exactly the records that are not
\* transferred and below the ceiling (so a record left Processing by a dead
\* run is in it and a transferred one is not); and the loop passes a list
\* entry only after an attempt on it.
C4_CrashRecovery ==
    [][/\ pc' = "m_pending" => \A k \in Indexes : ~table'[k].processing
       /\ (pc = "m_pending" /\ pc' \in {"loop", "f_cleanup"}) =>
             \A k \in Indexes :
                 inList(pending', table[k].name) <=>
                     (~table[k].transferred /\ table[k].retry_count < RetryCeiling)
       /\ (pc = "loop" /\ pc' = "s_load") => att'.name = pending[idx]
       /\ (pc = "m_next" /\ pc' = "loop") =>
             (att.name = pending[idx] /\ idx' = idx + 1)
       /\ (pc = "loop" /\ pc' = "f_cleanup") => idx = Len(pending) + 1]_vars

\* a record whose working copy was left behind by a run that died during its
\* attempt is being attempted again
C4_Witness ==
    /\ pc = "a_create"
    /\ att.name \in wc
    /\ recordOf(table, att.name).processing

\* C5: when the orchestrator moves on from a repository whose create step
\* failed on a rate-limit response, it has retried that repository once.
C5_QuotaRetriedOnce ==
    (pc = "m_next" /\ att.quota) => att.second

\* C6: an attempt that failed on a rate-limit response leaves the record's
\* retry_count as it was when the attempt began.
C6_QuotaKeepsRetryCount ==
    (pc = "m_next" /\ att.quota) =>
        recordOf(table, att.name).retry_count = att.rc0

\* C7: when the signal handler exits the process, no record of the persisted
\* table has processing = TRUE and no working copy is left.
C7_ExitLeavesNothingProcessing ==
    [][(hpc = "h_exit" /\ pc' = "off") =>
          /\ \A k \in Indexes : ~table'[k].processing
          /\ wc' = {}]_vars

\* C8: no save loses another call's update: a record persisted as
\* transferred is never written back to transferred = FALSE.
C8_NoLostUpdate ==
    [][\A k \in Indexes : table[k].transferred => table'[k].transferred]_vars

\* C9: every record that is not transferred is in the pending list, or is
\* Processing, or is in the failed list.
C9_NoRepositoryLost ==
    \A k \in Indexes :
        \/ table[k].transferred
        \/ inList(getPendingRepos(table), table[k])
        \/ table[k].processing
        \/ inList(getFailedRepos(table), table[k])

\* the indexes of the records of t that are not transferred, not processing
\* and below the ceiling
eligible(t) ==
    {k \in 1..Len(t) :
        ~t[k].transferred /\ ~t[k].processing /\ t[k].retry_count < 3}

\* C10: getPendingRepos() returns exactly the records that are not
\* transferred, not processing and below 3 retries, in table order, and
\* leaves the table as it was.
C10_PendingIsExactFilter ==
    [][ret'.call = "getPendingRepos" =>
          /\ table' = table
          /\ Len(ret'.list) = Cardinality(eligible(table))
          /\ \A k \in eligible(table) :
                ret'.list[Cardinality({i \in eligible(table) : i <= k})] = table[k]]_vars

\* a call that returned some of the records, the first one left out
C10_Witness ==
    /\ ret.call = "getPendingRepos"
    /\ Len(ret.list) > 0
    /\ Len(ret.list) < Len(table)
    /\ ret.list[1] # table[1]

\* a step that is a call `call` on the record at index k, which did not throw
calledOn(call, k) ==
    /\ ret'.call = call
    /\ ret'.name = table[k].name
    /\ ~ret'.thrown

\* C11: a record with retry_count = 3 is not in what getPendingRepos()
\* returns; a clearError call on it leaves it with retry_count 0, error null
\* and in the pending list.
C11_CeilingThenClear ==
    [][\A k \in Indexes :
          table[k].retry_count = RetryCeiling =>
              /\ ret'.call = "getPendingRepos" => ~inList(ret'.list, table[k])
              /\ calledOn("clearError", k) =>
                    /\ table'[k].retry_count = 0
                    /\ table'[k].error = Null
                    /\ inList(getPendingRepos(table'), table'[k])]_vars

\* C11 as amended: the cleared record is in the pending list when it is
\* neither transferred nor processing.
C11_CeilingThenClearAmended ==
    [][\A k \in Indexes :
          table[k].retry_count = RetryCeiling =>
              /\ ret'.call = "getPendingRepos" => ~inList(ret'.list, table[k])
              /\ calledOn("clearError", k) =>
                    /\ table'[k].retry_count = 0
                    /\ table'[k].error = Null
                    /\ (~table[k].transferred /\ ~table[k].processing) =>
                          inList(getPendingRepos(table'), table'[k])]_vars

\* clearError has just been called on a record, which is pending again,
\* while another record sits at the ceiling, left out of the pending list
C11_Witness ==
    /\ ret.call = "clearError"
    /\ ~ret.thrown
    /\ \E k, j \in Indexes :
          /\ table[k].name = ret.name
          /\ table[k].retry_count = 0
          /\ inList(getPendingRepos(table), table[k])
          /\ table[j].retry_count = RetryCeiling
          /\ ~table[j].transferred
          /\ ~table[j].processing
          /\ ~inList(getPendingRepos(table), table[j])

\* C12: resetProcessingRepos() is idempotent: after a call no record is
\* processing, and a second call made directly after a first one returns 0
\* and leaves the persisted table unchanged.
C12_ResetIdempotent ==
    /\ [](ret.call = "resetProcessingRepos" =>
             \A k \in Indexes : ~table[k].processing)
    /\ [][(ret.call = "resetProcessingRepos" /\ ret'.call = "resetProcessingRepos") =>
             (ret'.count = 0 /\ table' = table)]_vars

\* a first call has just reset every record of the table; the second call is
\* the next step
C12_Witness ==
    /\ ret.call = "resetProcessingRepos"
    /\ ret.count = Len(table)
    /\ \A k \in Indexes : ~table[k].processing

\* a step that sets the record at index k to transferred = TRUE: a
\* markAsCompleted call, or an updateRepoStatus call whose patch carries
\* transferred = TRUE
setsTransferred(k) ==
    \/ calledOn("markAsCompleted", k)
    \/ /\ calledOn("updateRepoStatus", k)
       /\ \E u \in UpdatePatches :
             /\ "transferred" \in DOMAIN u
             /\ u.transferred
             /\ table' = applyUpdate(table, table[k].name, u)

\* C13: whenever a record is set to transferred = TRUE, the persisted record
\* afterwards has transferred = TRUE, processing = FALSE, error = null and
\* pushed_at set, whatever its previous error and whatever else the patch
\* carries.
C13_CompletionIsClean ==
    [][\A k \in Indexes :
          setsTransferred(k) =>
              /\ table'[k].transferred
              /\ ~table'[k].processing
              /\ table'[k].error = Null
              /\ table'[k].pushed_at # Null]_vars

\* a record that failed before was completed by an updateRepoStatus call
\* whose patch carried processing = TRUE and an error (markAsCompleted, which
\* stamps created_at, was never called on it)
C13_Witness ==
    /\ ret.call = "updateRepoStatus"
    /\ ~ret.thrown
    /\ \E k \in Indexes :
          /\ table[k].name = ret.name
          /\ table[k].transferred
          /\ table[k].created_at = Null
          /\ table[k].retry_count > 0
          /\ ~table[k].processing
          /\ table[k].error = Null
          /\ table[k].pushed_at = Stamp

\* the public methods built on updateRepoStatus
UpdateCalls ==
    {"updateRepoStatus", "markAsProcessing", "markAsCompleted", "markAsError",
     "clearError"}

\* C14: updateRepoStatus, markAsProcessing, markAsCompleted, markAsError and
\* clearError throw when no record has the name given, and the persisted
\* table is then left unchanged.
C14_NotFoundChangesNothing ==
    [][(/\ ret'.call \in UpdateCalls
        /\ \A k \in Indexes : table[k].name # ret'.name) =>
           (ret'.thrown /\ table' = table)]_vars

\* markAsError was called with a name no record carries, on a table that
\* holds the results of earlier calls: it threw
C14_Witness ==
    /\ ret.call = "markAsError"
    /\ ret.name = Ghost
    /\ ret.thrown
    /\ \E k \in Indexes : table[k].retry_count > 0 /\ table[k].error # Null

\* the step is the save of a markAsError(name, message) call of the main flow
savesMarkAsError(name) ==
    /\ pc = "s_save"
    /\ pc' # "s_save"
    /\ op.kind = "update"
    /\ op.name = name
    /\ DOMAIN op.updates = {"processing", "error", "retry_count"}

\* C15: a record's retry_count changes only when markAsError raises it by
\* exactly 1 (setting processing = FALSE and error = the message) and when
\* clearError sets it to 0; markAsProcessing, markAsCompleted,
\* resetProcessingRepos and the death of the process leave it as it is.
C15_RetryCountFrame ==
    [][\A k \in Indexes :
          table'[k].retry_count # table[k].retry_count =>
              \/ /\ savesMarkAsError(table[k].name)
                 /\ table'[k].retry_count = table[k].retry_count + 1
                 /\ ~table'[k].processing
                 /\ table'[k].error = op.updates.error
                 /\ table'[k].error # Null
              \/ /\ savesClearError(table[k].name)
                 /\ table'[k].retry_count = 0]_vars

\* C16: within one run of migrate() the pending list is computed once, in
\* table order; an attempt is started only by the loop, on the entry at the
\* loop index; and the index only moves forward, one entry at a time, so a
\* repository that failed is not attempted again in that run.
C16_AttemptOrder ==
    [][/\ pending' # pending => (pc = "m_pending" \/ pc' = "off")
       /\ (pc = "m_pending" /\ pc' \in {"loop", "f_cleanup"}) =>
             \A i, j \in 1..Len(pending') :
                 i < j => findIndex(table, pending'[i]) < findIndex(table, pending'[j])
       /\ \A n \in Names :
             startsAttempt(n) => (pc = "loop" /\ idx <= Len(pending) /\ n = pending[idx])
       /\ (pc # "loop" /\ pc' = "loop") =>
             \/ pc = "m_pending" /\ idx' = 1
             \/ pc = "m_next" /\ idx' = idx + 1
       /\ idx' # idx => (pc \in {"m_pending", "m_next"} \/ pc' = "off")]_vars

\* the first entry of the pending list failed and the run is attempting the
\* second one
C16_Witness ==
    /\ pc = "a_create"
    /\ Len(pending) = 2
    /\ idx = 2
    /\ att.name = pending[2]
    /\ findIndex(table, pending[1]) < findIndex(table, pending[2])
    /\ recordOf(table, pending[1]).error # Null
    /\ ~recordOf(table, pending[1]).processing

\* C17: a history rewrite that fails takes the attempt to its catch, and
\* when an attempt that failed in the LFS step or in the push is over, the
\* record is Failed (processing = FALSE, error = the message, retry_count
\* one higher) and the run goes on with the next entry.
C17_RewriteAndPushFailuresPropagate ==
    [][/\ (pc = "a_lfs" /\ att'.lfs = "failed") => pc' = "c_cleanup"
       /\ (pc = "m_catch" /\ att.err.msg \in {"lfs", "push"}) =>
             /\ pc' \in {"m_next", "off"}
             /\ ~recordOf(table, att.name).processing
             /\ recordOf(table, att.name).error = att.err.msg
             /\ recordOf(table, att.name).retry_count = att.rc0 + 1]_vars

\* C18: once a state-store call has thrown in a run, that run changes
\* nothing at the destination (no create, delete or push) and starts no
\* attempt for any repository.
C18_StoreErrorIsFatal ==
    [][(Running /\ att.err.msg = "store") =>
          /\ gh' = gh
          /\ \A n \in Names : ~startsAttempt(n)]_vars

\* C19: under a global size threshold that parseSize rejects, no run gets as
\* far as marking a record Processing or scanning a working copy, and no
\* oversized file is ever taken for a small one.
C19_MalformedThresholdIsFatal ==
    ~sizeMatches(threshold) =>
        /\ \A k \in Indexes : ~table[k].processing
        /\ pc # "a_lfs"
        /\ att.lfs # "missed"

\* the main flow of a run is at a point before its backup() has written
beforeBackup ==
    \/ pc \in {"rf_clear", "m_backup"}
    \/ pc \in {"s_load", "s_save"} /\ op.next \in {"rf_clear", "m_backup"}

\* the step is the write of the run's snapshot
writesSnapshot == pc = "m_backup" /\ pc' = "m_pending"

\* C20: a run changes no record before it writes its snapshot, so that the
\* snapshot is the table as it was when the run began; the snapshot is a
\* full copy of the table, and writing it leaves the table unchanged.
C20_SnapshotOfRunStart ==
    [][/\ beforeBackup => table' = table
       /\ writesSnapshot => (snapshot' = table /\ table' = table)]_vars

\* C20 (amended): the snapshot is a full copy of the table as backup() reads
\* it, after the run's reset of stale processing flags: it holds no
\* Processing record, no attempt of the run starts before it is written, and
\* writing it leaves the table unchanged.
C20_SnapshotAfterReset ==
    /\ [](\A k \in 1..Len(snapshot) : ~snapshot[k].processing)
    /\ [][/\ writesSnapshot => (snapshot' = table /\ table' = table)
          /\ (\E n \in Names : startsAttempt(n)) => snapshot # <<>>]_vars

\* a snapshot has just been written, and a record of it had been left
\* Processing by a dead run after a failure: its flag is reset in the copy
C20_Witness ==
    /\ pc = "m_pending"
    /\ snapshot = table
    /\ \E k \in Indexes :
          /\ snapshot[k].retry_count > 0
          /\ snapshot[k].error = Null
          /\ ~snapshot[k].transferred

C22_StrategySelection ==
    det.stage = "selected" =>
        /\ det.scan.historyFiles # {} => det.strategy.tag = "A"
        /\ (det.scan.historyFiles = {} /\ det.scan.files # {}) =>
              (det.strategy.tag = "B" /\ det.strategy.include = det.scan.files)
        /\ (det.scan.historyFiles = {} /\ det.scan.files = {}) =>
              det.strategy.tag = "none"

\* Strategy A was selected for a result that holds current files as well
C22_Witness ==
    /\ det.stage = "selected"
    /\ det.scan.historyFiles # {}
    /\ det.scan.files # {}
    /\ det.strategy.tag = "A"

\* the entry of the repository under detection in the configuration table
detEntry == det.settings.repositories[det.name]

\* no commit scanned holds, over the threshold, a path that the working
\* tree does not hold
noOversizedGone ==
    \A p \in Paths : \A i \in 1..Len(det.commits) :
        exceeds(det.commits[i][p], parseSize(threshold)) =>
            present(det.commits[1], p)

\* C23: for a repository whose configuration entry lists files that all
\* exist in the working tree (and nothing else), and whose history holds no
\* oversized path that is gone from the working tree, detection gives mode
\* configured, files = the configured files and historyFiles empty, and
\* Strategy B is selected with that list, whatever the sizes of the files.
C23_ConfiguredFilesGetStrategyB ==
    (/\ det.stage = "selected"
     /\ detEntry.own
     /\ detEntry.files # {}
     /\ \A f \in detEntry.files : present(det.commits[1], f)
     /\ detEntry.patterns = {}
     /\ ~detEntry.autoDetect
     /\ noOversizedGone) =>
        /\ det.scan.mode = "configured"
        /\ det.scan.files = detEntry.files
        /\ det.scan.historyFiles = {}
        /\ det.strategy.tag = "B"
        /\ det.strategy.include = detEntry.files

\* C24: every path of historyFiles is absent from the working tree, and it
\* is over the threshold in one of the commits scanned or is a configured
\* file that is missing.
C24_HistoryFilesAreGone ==
    det.stage \in {"scanned", "selected"} =>
        \A p \in det.scan.historyFiles :
            /\ ~present(det.commits[1], p)
            /\ \/ \E i \in 1..Min(Len(det.commits), ScanLimit) :
                      exceeds(det.commits[i][p], parseSize(threshold))
               \/ (detEntry.own /\ p \in detEntry.files)

hasEntry == det.source.kind = "table" /\ det.source.repositories[det.name].own

\* C26: the detection mode is configured for a name with an entry in the
\* configuration table and auto-detect for every name without one, also
\* when there is no configuration source, and finding the mode never fails.
C26_ModeFromConfiguration ==
    /\ det.stage # "thrown"
    /\ det.stage \in {"scanned", "selected"} =>
          det.scan.mode = IF hasEntry THEN "configured" ELSE "auto-detect"

\* C27: no handleLFS call ends without the history scan (by an early return
\* or by a throw), and in both modes every path the scan reports is in
\* historyFiles of the result the strategy is selected from.
C27_HistoryScannerAlwaysRuns ==
    /\ det.stage \notin {"existing", "thrown"}
    /\ det.stage \in {"scanned", "selected"} =>
          /\ det.scan.scanned
                = toSet(detectLargeFilesInHistory(det.commits, det.unreadable, threshold))
          /\ det.scan.scanned \subseteq det.scan.historyFiles

\* C28: when Strategy A is selected, the size handed to git lfs migrate
\* import (--above) is the number of bytes that parseSize gives for the
\* global threshold, the one the scanners compared sizes with.
C28_StrategyAThreshold ==
    (det.stage = "selected" /\ det.strategy.tag = "A") =>
        det.strategy.above.num * parseSize(threshold).den
            = parseSize(threshold).num * det.strategy.above.den

\* strings that name the same size in two units
ScalePairs ==
    {<<<<"1", "G", "B">>, <<"1", "0", "2", "4", "M", "B">>>>,
     <<<<"1", "M", "B">>, <<"1", "0", "2", "4", "K", "B">>>>,
     <<<<"5", "0", "k", "b">>, <<"5", "1", "2", "0", "0", "B">>>>,
     <<<<"1", ".", "5", "K", "B">>, <<"1", "5", "3", "6", " ", "b">>>>}

\* C29: the number of bytes that the scan got from parseSize for the
\* threshold string is a whole number, and strings that name the same size
\* in different units parse to the same number (1 GB = 1024 MB,
\* 1 MB = 1024 KB, 1 KB = 1024 B).
C29_ParseSizeWholeAndScaled ==
    /\ (det.stage \in {"scanned", "selected"} /\ sizeMatches(threshold)) =>
          parseSize(threshold).num % parseSize(threshold).den = 0
    /\ \A pair \in ScalePairs :
          parseSize(pair[1]).num * parseSize(pair[2]).den
              = parseSize(pair[2]).num * parseSize(pair[1]).den

\* C30: a stored error message becomes null only in a call that sets
\* transferred = TRUE or in a clearError call, and a markAsProcessing call
\* leaves it as it is.
C30_ErrorClearedOnlyOnSuccessOrClear ==
    [][\A k \in Indexes :
          table[k].error # Null =>
              /\ table'[k].error = Null =>
                    (setsTransferred(k) \/ calledOn("clearError", k))
              /\ calledOn("markAsProcessing", k) =>
                    table'[k].error = table[k].error]_vars

\* the commit at index i holds the path p with a size over the threshold
oversizedAt(i, p) ==
    /\ present(det.commits[i], p)
    /\ det.commits[i][p] * parseSize(threshold).den > parseSize(threshold).num

\* C31: the history scan reports each path once; a path is reported exactly
\* when one of the first min(total, 50) commits that can be read holds it
\* with a size strictly over the threshold, so a commit that cannot be read
\* takes nothing away from what the other commits give.
C31_HistoryScanBounded ==
    det.stage \in {"scanned", "selected"} =>
        /\ \A j, k \in 1..Len(det.scan.list) :
              j # k => det.scan.list[j] # det.scan.list[k]
        /\ \A p \in Paths :
              (\E j \in 1..Len(det.scan.list) : det.scan.list[j] = p) <=>
                  \E i \in 1..Len(det.commits) :
                      /\ i <= 50
                      /\ i \notin det.unreadable
                      /\ oversizedAt(i, p)

\* a history of 51 commits whose newest commit could not be read: a path
\* that the 49 commits after it hold over the threshold is reported, a path
\* that only the oldest commit holds over the threshold is not
C31_Witness ==
    /\ det.stage = "scanned"
    /\ Len(det.commits) = 51
    /\ det.unreadable = {1}
    /\ det.scan.list # <<>>
    /\ \E p \in Paths :
          /\ oversizedAt(51, p)
          /\ \A j \in 1..Len(det.scan.list) : det.scan.list[j] # p

\* the step is the return of a migrateRepository call (the save of its
\* markAsCompleted) or its throw (into the catch of migrate())
attemptReturns ==
    pc = "s_save" /\ op.updates = completedPatch(Stamp) /\ pc' = "m_next"

attemptThrows == pc # "m_catch" /\ pc' = "m_catch"

afterStartupReset ==
    /\ Running
    /\ pc # "rf_clear"
    /\ ~(pc \in {"s_load", "s_save"} /\ op.next \in {"rf_clear", "m_backup"})
    /\ pc = "m_backup" \/ snapshot # <<>>

\* the main flow is inside a migrateRepository call
inAttempt ==
    \/ pc \in {"a_create", "a_clone", "a_gitclone", "a_lfs", "a_push",
               "c_cleanup", "c_markerr"}
    \/ /\ pc \in {"s_load", "s_save"}
       /\ op.kind = "update"
       /\ op.name = att.name
       /\ op.next \in {"a_create", "m_next", "m_catch"}

C34_PushOnlyToEmptyDestination ==
    /\ [](pc = "a_push" =>
             /\ att.createResult \in {"created", "skipped"}
             /\ gh[att.name] = "empty")
    /\ [][\A n \in Names :
             (gh[n] # "nonempty" /\ gh'[n] = "nonempty") =>
                 (pc = "a_push" /\ n = att.name /\ gh[n] = "empty")]_vars

\* the push is about to run on a destination found existing and empty, in
\* an attempt that follows a failed one on the same repository, while the
\* other destination holds content
C34_Witness ==
    /\ pc = "a_push"
    /\ att.createResult = "skipped"
    /\ recordOf(table, att.name).retry_count > 0
    /\ \E n \in Names : n # att.name /\ gh[n] = "nonempty"

\* C36: a --retry run reads as its failed list exactly the records with an
\* error that are not transferred, those at the retry ceiling among them; it
\* reaches the computation of its pending list only after a clearError call
\* for every entry; and the pending list it computes holds every entry, so
\* that the loop attempts each of them.
C36_RetryAttemptsAllFailed ==
    [][/\ (pc = "off" /\ pc' = "rf_clear") =>
             \A k \in Indexes :
                 /\ inList(failedList', table[k].name) <=>
                       (table[k].error # Null /\ ~table[k].transferred)
                 /\ (table[k].retry_count >= RetryCeiling /\ ~table[k].transferred) =>
                       inList(failedList', table[k].name)
       /\ (pc = "rf_clear" /\ pc' = "s_load" /\ op'.kind = "update") =>
             /\ op'.name = failedList[cleared + 1]
             /\ op'.updates = clearErrorPatch
       /\ (pc = "m_pending" /\ pc' \in {"loop", "f_cleanup"} /\ att' = att) =>
             /\ cleared = Len(failedList)
             /\ \A j \in 1..Len(failedList) : inList(pending', failedList[j])]_vars

\* the fields of a record but its processing flag
KeptFields ==
    {"name", "branch", "transferred", "created_at", "pushed_at", "error",
     "retry_count"}

\* C35: a resetProcessingRepos() call leaves the table with the same
\* records in the same order, every one with processing = FALSE and with
\* every other field as it was, and returns the number of records that had
\* processing = TRUE.
C35_ResetFrame ==
    [][ret'.call = "resetProcessingRepos" =>
          /\ Len(table') = Len(table)
          /\ \A k \in Indexes :
                /\ ~table'[k].processing
                /\ \A f \in KeptFields : table'[k][f] = table[k][f]
          /\ ret'.count = Cardinality({k \in Indexes : table[k].processing})]_vars

\* a call has just reset one record, next to a record that failed before
\* and keeps its error and its retry count
C35_Witness ==
    /\ ret.call = "resetProcessingRepos"
    /\ ret.count = 1
    /\ \E k \in Indexes :
          /\ table[k].error # Null
          /\ table[k].retry_count > 0
          /\ ~table[k].processing

\* C37: a record persisted with transferred = TRUE is transferred in every
\* later state of the table, through state-store calls, runs, --retry runs
\* and restarts after a kill, and no attempt is begun on its repository.
C37_TransferredIsPermanent ==
    [][\A k \in Indexes :
          table[k].transferred =>
              /\ Len(table') = Len(table)
              /\ table'[k].name = table[k].name
              /\ table'[k].transferred
              /\ ~startsAttempt(table[k].name)]_vars

\* C38: in every state that runs of the program reach from a table with
\* every retry_count at 0, every record has 0 <= retry_count <= 3.
C38_RetryCountBounded ==
    \A k \in Indexes : table[k].retry_count \in 0..3

\* the push of an attempt on name has completed: markAsCompleted(name) is in
\* flight or has thrown into the catch of the same attempt, or the record
\* is persisted as transferred
pushCompleted(name) ==
    \/ /\ pc \in {"s_load", "s_save"}
       /\ op.kind = "update"
       /\ op.name = name
       /\ op.updates = completedPatch(Stamp)
    \/ /\ pc = "c_cleanup"
       /\ att.name = name
       /\ att.createResult # Null
       /\ att.err.msg = "store"
    \/ \E k \in Indexes : table[k].name = name /\ table[k].transferred

\* C39: a destination to which the push of an attempt completed is not
\* deleted by any later step, also when markAsCompleted of the same attempt
\* fails.
C39_PushedDestinationKept ==
    [][\A n \in Names : pushCompleted(n) => gh'[n] = "nonempty"]_vars

\* C40: when migrate() has finished (its loop is through, the pending list
\* was empty, or a fatal error was thrown) its final cleanup has run: no
\* working copy is left and no persisted record has processing = TRUE.
C40_FinishedRunIsClean ==
    pc \in {"f_end", "ended"} =>
        /\ wc = {}
        /\ \A k \in Indexes : ~table[k].processing

\* migrate() has finished by a fatal error (checkDependencies threw: no
\* backup was written, no pending list computed) in a data directory where
\* earlier runs have worked
C40_Witness ==
    /\ pc = "f_end"
    /\ snapshot = <<>>
    /\ pending = <<>>
    /\ \E k \in Indexes : table[k].retry_count > 0 \/ table[k].transferred
====
